---- MODULE Spec2Model ----
(***************************************************************************)
(* ChainShape of planck.js (collision/shape/ChainShape.ts): a free-form    *)
(* sequence of line segments that hands out one Edge per segment.          *)
(*                                                                         *)
(* A Vec2 is the pair <<x, y>>.  Lengths are counted in units of           *)
(* Settings.linearSlop, so that the coordinates are integers and           *)
(* linearSlopSquared is 1 and polygonRadius (2 * linearSlop) is 2.         *)
(* Vectors are never mutated in place by the chain, so a reference to a    *)
(* Vec2 is modelled by its value.  JavaScript arrays are 0-based; the      *)
(* sequences here are 1-based and At(a, i) reads a[i] the JavaScript way.  *)
(***************************************************************************)
EXTENDS Integers, Sequences, FiniteSets

(* ------------------------------ bounds --------------------------------- *)

\* longest vertex array handed to the constructor
MaxVerts == 3

\* how many times _reset is called on one chain
MaxResets == 1

\* vertices the caller builds chains from; (0,0)-(1,0) are exactly one
\* linearSlop apart, every other pair is further apart
Points == { <<0, 0>>, <<1, 0>>, <<2, 2>>, <<0, 2>> }

\* vertices the caller passes to setPrevVertex / setNextVertex
GhostPoints == { <<-1, 0>>, <<3, 3>> }

\* world points handed to testPoint
TestPoints == { <<1, 1>>, <<-1, 1>> }

\* transforms: identity, a quarter turn with an offset, a half turn with an
\* offset (p is the position, s and c the sine and cosine of the rotation)
Transforms ==
  { [p |-> <<0, 0>>, s |-> 0, c |-> 1],
    [p |-> <<1, -1>>, s |-> 1, c |-> 0],
    [p |-> <<-2, 0>>, s |-> 0, c |-> -1] }

\* what the caller's AABB holds before computeAABB (the second is inverted)
PriorBoxes ==
  { [lowerBound |-> <<0, 0>>, upperBound |-> <<0, 0>>],
    [lowerBound |-> <<5, 5>>, upperBound |-> <<-5, -5>>] }

RECURSIVE SeqsUpTo(_, _)
SeqsUpTo(S, n) ==
  IF n = 0 THEN { <<>> }
  ELSE LET shorter == SeqsUpTo(S, n - 1)
       IN  shorter \cup { Append(q, v) : q \in shorter, v \in S }

\* the vertex arrays the caller may pass to the constructor
VertexArrays == SeqsUpTo(Points, MaxVerts)

(* --------------------------- JavaScript values ------------------------- *)

Null == << "null" >>

Undefined == << "undefined" >>

\* a[i] of a JavaScript array: undefined outside the array
At(a, i) == IF i + 1 \in DOMAIN a THEN a[i + 1] ELSE Undefined

(* ------------------------- collaborators of Chain ---------------------- *)

linearSlopSquared == 1

polygonRadius == 2

Vec2_clone(v) == << v[1], v[2] >>

Vec2_sub(v, w) == << v[1] - w[1], v[2] - w[2] >>

Vec2_distanceSquared(v, w) ==
  (v[1] - w[1]) * (v[1] - w[1]) + (v[2] - w[2]) * (v[2] - w[2])

\* Transform.mulVec2(xf, v): rotate by xf.q, then translate by xf.p
Transform_mulVec2(xf, v) ==
  << xf.c * v[1] - xf.s * v[2] + xf.p[1], xf.s * v[1] + xf.c * v[2] + xf.p[2] >>

\* Rot.mulTVec2(q, v): rotate by the inverse of q
Rot_mulTVec2(q, v) ==
  << q.c * v[1] + q.s * v[2], (0 - q.s) * v[1] + q.c * v[2] >>

Math_min(a, b) == IF a < b THEN a ELSE b

Math_max(a, b) == IF a > b THEN a ELSE b

\* AABB.combinePoints(a, b): the box spanned by two points
AABB_combinePoints(a, b) ==
  [lowerBound |-> << Math_min(a[1], b[1]), Math_min(a[2], b[2]) >>,
   upperBound |-> << Math_max(a[1], b[1]), Math_max(a[2], b[2]) >>]

(* ------------------------------- state --------------------------------- *)

VARIABLES
  _ASSERT,          \* the build flag ASSERT (false when undefined)
  status,           \* "new": before new Chain(..), "ok": constructed,
                    \* "threw": the constructor threw, there is no chain
  input,            \* the vertices argument of the constructor
  m_type, m_radius,
  m_vertices, m_count,
  m_prevVertex, m_nextVertex, m_hasPrevVertex, m_hasNextVertex,
  m_isLoop,
  resets,           \* number of _reset calls so far
  lastPrev,         \* argument of the latest setPrevVertex, Null if none
  lastNext,         \* argument of the latest setNextVertex, Null if none
  call              \* the latest call on the chain and what it produced

chainVars ==
  << m_type, m_radius, m_vertices, m_count, m_prevVertex, m_nextVertex,
     m_hasPrevVertex, m_hasNextVertex, m_isLoop >>

vars ==
  << _ASSERT, status, input, chainVars, resets, lastPrev, lastNext, call >>

NoCall == [op |-> "none", threw |-> FALSE]

\* the fields of this that _createLoop and _createChain read and write
This ==
  [m_vertices |-> m_vertices, m_count |-> m_count,
   m_prevVertex |-> m_prevVertex, m_nextVertex |-> m_nextVertex,
   m_hasPrevVertex |-> m_hasPrevVertex, m_hasNextVertex |-> m_hasNextVertex]

\* the fields the Chain constructor sets before it looks at its arguments
Fresh ==
  [m_vertices |-> <<>>, m_count |-> 0,
   m_prevVertex |-> Null, m_nextVertex |-> Null,
   m_hasPrevVertex |-> FALSE, m_hasNextVertex |-> FALSE]

\* some pair of consecutive vertices of the array is within linearSlop
TooClose(vertices) ==
  \E i \in 1 .. Len(vertices) - 1 :
    ~ (Vec2_distanceSquared(At(vertices, i - 1), At(vertices, i)) > linearSlopSquared)

\* _createLoop taking the closing vertex, m_vertices[m_count - 1], for the
\* vertex before the first one
_createLoop_prevIsClosing(this, vertices) ==
  IF _ASSERT /\ ~ (Len(this.m_vertices) = 0 /\ this.m_count = 0)
    THEN [this |-> this, threw |-> TRUE]
  ELSE IF _ASSERT /\ ~ (Len(vertices) >= 3)
    THEN [this |-> this, threw |-> TRUE]
  ELSE IF _ASSERT /\ TooClose(vertices)
    THEN [this |-> this, threw |-> TRUE]
  ELSE IF Len(vertices) = 0
    THEN [this |-> [this EXCEPT !.m_vertices = <<>>, !.m_count = 1],
          threw |-> TRUE]
  ELSE LET copied == [i \in 1 .. Len(vertices) |-> Vec2_clone(vertices[i])]
           closed == Append(copied, Vec2_clone(At(vertices, 0)))
           count == Len(vertices) + 1
       IN  [this |-> [m_vertices |-> closed, m_count |-> count,
                      m_prevVertex |-> At(closed, count - 1),
                      m_nextVertex |-> At(closed, 1),
                      m_hasPrevVertex |-> TRUE, m_hasNextVertex |-> TRUE],
            threw |-> FALSE]

\* _createLoop(vertices) on the chain this: the fields afterwards, and
\* whether the call threw
_createLoop(this, vertices) ==
  IF _ASSERT /\ ~ (Len(this.m_vertices) = 0 /\ this.m_count = 0)
    THEN [this |-> this, threw |-> TRUE]
  ELSE IF _ASSERT /\ ~ (Len(vertices) >= 3)
    THEN [this |-> this, threw |-> TRUE]
  ELSE IF _ASSERT /\ TooClose(vertices)
    THEN [this |-> this, threw |-> TRUE]
  ELSE IF Len(vertices) = 0
    \* Vec2.clone(vertices[0]) reads a field of undefined: a TypeError after
    \* m_vertices and m_count were assigned
    THEN [this |-> [this EXCEPT !.m_vertices = <<>>, !.m_count = 1],
          threw |-> TRUE]
  ELSE LET copied == [i \in 1 .. Len(vertices) |-> Vec2_clone(vertices[i])]
           closed == Append(copied, Vec2_clone(At(vertices, 0)))
           count == Len(vertices) + 1
       IN  [this |-> [m_vertices |-> closed, m_count |-> count,
                      m_prevVertex |-> At(closed, count - 2),
                      m_nextVertex |-> At(closed, 1),
                      m_hasPrevVertex |-> TRUE, m_hasNextVertex |-> TRUE],
            threw |-> FALSE]

\* _createChain(vertices) on the chain this
_createChain(this, vertices) ==
  IF _ASSERT /\ ~ (Len(this.m_vertices) = 0 /\ this.m_count = 0)
    THEN [this |-> this, threw |-> TRUE]
  ELSE IF _ASSERT /\ ~ (Len(vertices) >= 2)
    THEN [this |-> this, threw |-> TRUE]
  ELSE IF _ASSERT /\ TooClose(vertices)
    THEN [this |-> this, threw |-> TRUE]
  ELSE [this |-> [m_vertices |-> [i \in 1 .. Len(vertices) |-> Vec2_clone(vertices[i])],
                  m_count |-> Len(vertices),
                  m_prevVertex |-> Null, m_nextVertex |-> Null,
                  m_hasPrevVertex |-> FALSE, m_hasNextVertex |-> FALSE],
        threw |-> FALSE]

\* assign the fields of a This record to the chain
Store(this) ==
  /\ m_vertices' = this.m_vertices
  /\ m_count' = this.m_count
  /\ m_prevVertex' = this.m_prevVertex
  /\ m_nextVertex' = this.m_nextVertex
  /\ m_hasPrevVertex' = this.m_hasPrevVertex
  /\ m_hasNextVertex' = this.m_hasNextVertex

Init ==
  /\ _ASSERT \in BOOLEAN
  /\ status = "new"
  /\ input = <<>>
  /\ m_type = "chain"
  /\ m_radius = polygonRadius
  /\ m_vertices = <<>>
  /\ m_count = 0
  /\ m_prevVertex = Null
  /\ m_nextVertex = Null
  /\ m_hasPrevVertex = FALSE
  /\ m_hasNextVertex = FALSE
  /\ m_isLoop = FALSE
  /\ resets = 0
  /\ lastPrev = Null
  /\ lastNext = Null
  /\ call = NoCall

\* new Chain(vertices, loop)
Constructor ==
  /\ status = "new"
  /\ \E vertices \in VertexArrays, loop \in BOOLEAN :
       LET r == IF Len(vertices) > 0
                  THEN IF loop THEN _createLoop(Fresh, vertices)
                               ELSE _createChain(Fresh, vertices)
                  ELSE [this |-> Fresh, threw |-> FALSE]
       IN  /\ input' = vertices
           /\ m_isLoop' = loop
           /\ status' = IF r.threw THEN "threw" ELSE "ok"
           /\ Store(r.this)
           /\ call' = [op |-> "constructor", threw |-> r.threw]
  /\ UNCHANGED << _ASSERT, m_type, m_radius, resets, lastPrev, lastNext >>

(* ------------------------------ operations ----------------------------- *)

\* chain.setPrevVertex(prevVertex)
setPrevVertex ==
  /\ status = "ok"
  /\ \E prevVertex \in GhostPoints :
       /\ m_prevVertex' = prevVertex
       /\ m_hasPrevVertex' = TRUE
       /\ lastPrev' = prevVertex
  /\ call' = [op |-> "setPrevVertex", threw |-> FALSE]
  /\ UNCHANGED << _ASSERT, status, input, m_type, m_radius, m_vertices, m_count,
                  m_nextVertex, m_hasNextVertex, m_isLoop, resets, lastNext >>

\* setNextVertex that stores the vertex and leaves m_hasNextVertex as it was
setNextVertex_flagNotSet ==
  /\ status = "ok"
  /\ \E nextVertex \in GhostPoints :
       /\ m_nextVertex' = nextVertex
       /\ lastNext' = nextVertex
  /\ call' = [op |-> "setNextVertex", threw |-> FALSE]
  /\ UNCHANGED << _ASSERT, status, input, m_type, m_radius, m_vertices, m_count,
                  m_prevVertex, m_hasPrevVertex, m_hasNextVertex, m_isLoop,
                  resets, lastPrev >>

\* chain.setNextVertex(nextVertex)
setNextVertex ==
  /\ status = "ok"
  /\ \E nextVertex \in GhostPoints :
       /\ m_nextVertex' = nextVertex
       /\ m_hasNextVertex' = TRUE
       /\ lastNext' = nextVertex
  /\ call' = [op |-> "setNextVertex", threw |-> FALSE]
  /\ UNCHANGED << _ASSERT, status, input, m_type, m_radius, m_vertices, m_count,
                  m_prevVertex, m_hasPrevVertex, m_isLoop, resets, lastPrev >>

\* the calls that read the chain and leave every field of it alone
Queries ==
  { "getChildEdge", "testPoint", "computeAABB", "computeMass",
    "computeDistanceProxy" }

\* A query changes only call, so a query made right after another query
\* reaches no state that the same query made right after the preceding
\* constructor or update does not reach; queries are explored from there.
AfterUpdate == call.op \notin Queries

\* chain.getChildCount(): edge count = vertex count - 1
getChildCount == m_count - 1

\* the child indices the caller tries: every child, and one past the last
ChildIndices == 0 .. m_count - 1

\* getChildEdge taking the last child for an interior one: vertex3 is read
\* one place past the vertex array
getChildEdge_lastAsInterior(childIndex) ==
  IF _ASSERT /\ ~ (0 <= childIndex /\ childIndex < m_count - 1)
    THEN [threw |-> TRUE]
  ELSE [threw |-> FALSE,
        m_type |-> "edge",
        m_radius |-> m_radius,
        m_vertex1 |-> At(m_vertices, childIndex),
        m_vertex2 |-> At(m_vertices, childIndex + 1),
        m_vertex0 |-> IF childIndex > 0 THEN At(m_vertices, childIndex - 1)
                                        ELSE m_prevVertex,
        m_hasVertex0 |-> IF childIndex > 0 THEN TRUE ELSE m_hasPrevVertex,
        m_vertex3 |-> IF childIndex < m_count - 1 THEN At(m_vertices, childIndex + 2)
                                                  ELSE m_nextVertex,
        m_hasVertex3 |-> IF childIndex < m_count - 1 THEN TRUE ELSE m_hasNextVertex]

\* the edge that getChildEdge(edge, childIndex) leaves in edge (every field
\* it reads of edge is overwritten), and whether the call threw
getChildEdge(childIndex) ==
  IF _ASSERT /\ ~ (0 <= childIndex /\ childIndex < m_count - 1)
    THEN [threw |-> TRUE]
  ELSE [threw |-> FALSE,
        m_type |-> "edge",
        m_radius |-> m_radius,
        m_vertex1 |-> At(m_vertices, childIndex),
        m_vertex2 |-> At(m_vertices, childIndex + 1),
        m_vertex0 |-> IF childIndex > 0 THEN At(m_vertices, childIndex - 1)
                                        ELSE m_prevVertex,
        m_hasVertex0 |-> IF childIndex > 0 THEN TRUE ELSE m_hasPrevVertex,
        m_vertex3 |-> IF childIndex < m_count - 2 THEN At(m_vertices, childIndex + 2)
                                                  ELSE m_nextVertex,
        m_hasVertex3 |-> IF childIndex < m_count - 2 THEN TRUE ELSE m_hasNextVertex]

\* chain.getChildEdge(edge, childIndex)
GetChildEdge ==
  /\ status = "ok"
  /\ AfterUpdate
  /\ \E childIndex \in ChildIndices :
       LET edge == getChildEdge(childIndex)
       IN  call' = [op |-> "getChildEdge", childIndex |-> childIndex,
                    threw |-> edge.threw, edge |-> edge]
  /\ UNCHANGED << _ASSERT, status, input, chainVars, resets, lastPrev, lastNext >>

\* getVertex wrapping to vertex 0 one index early
getVertex_wrapsEarly(index) ==
  IF index < m_count - 1 THEN At(m_vertices, index) ELSE At(m_vertices, 0)

\* chain.getVertex(index), whose assertion is checked by the callers below
getVertex(index) ==
  IF index < m_count THEN At(m_vertices, index) ELSE At(m_vertices, 0)

getVertexThrows(index) == _ASSERT /\ ~ (0 <= index /\ index <= m_count)

\* the loop of testPoint from segment i on, inside being the parity so far;
\* x, y is the point in the chain's frame.  The comparison
\*   p1_x + ((y - p1_y) / (p2_y - p1_y)) * (p2_x - p1_x) < x
\* is taken over the rationals, multiplied out by p2_y - p1_y, which the
\* crossing test makes nonzero
RECURSIVE testPointLoop(_, _, _, _)
testPointLoop(i, inside, x, y) ==
  IF ~ (i < Len(m_vertices) - 1) THEN inside
  ELSE LET p1_x == At(m_vertices, i)[1]
           p1_y == At(m_vertices, i)[2]
           p2_x == At(m_vertices, i + 1)[1]
           p2_y == At(m_vertices, i + 1)[2]
           d == p2_y - p1_y
           crossing == (p1_y < y /\ p2_y >= y) \/ (p2_y < y /\ p1_y >= y)
           left == IF d > 0 THEN (y - p1_y) * (p2_x - p1_x) < (x - p1_x) * d
                            ELSE (y - p1_y) * (p2_x - p1_x) > (x - p1_x) * d
       IN  testPointLoop(i + 1,
                         IF crossing /\ left THEN ~ inside ELSE inside, x, y)

\* chain.testPoint(xf, p)
testPoint(xf, p) ==
  LET pLocal == Rot_mulTVec2(xf, Vec2_sub(p, xf.p))
  IN  testPointLoop(0, FALSE, pLocal[1], pLocal[2])

TestPoint ==
  /\ status = "ok"
  /\ AfterUpdate
  /\ \E xf \in Transforms, p \in TestPoints :
       call' = [op |-> "testPoint", xf |-> xf, p |-> p, threw |-> FALSE,
                result |-> testPoint(xf, p)]
  /\ UNCHANGED << _ASSERT, status, input, chainVars, resets, lastPrev, lastNext >>

\* computeAABB combining the transformed first endpoint with the second
\* endpoint left in the chain's frame
computeAABB_v2NotTransformed(prior, xf, childIndex) ==
  IF \/ _ASSERT /\ ~ (0 <= childIndex /\ childIndex < m_count)
     \/ getVertexThrows(childIndex) \/ getVertexThrows(childIndex + 1)
     \/ getVertex(childIndex) = Undefined \/ getVertex(childIndex + 1) = Undefined
    THEN [threw |-> TRUE, aabb |-> prior]
  ELSE LET v1 == Transform_mulVec2(xf, getVertex(childIndex))
           v2 == getVertex(childIndex + 1)
       IN  [threw |-> FALSE, aabb |-> AABB_combinePoints(v1, v2)]

\* the box that computeAABB(aabb, xf, childIndex) leaves in aabb, which
\* held prior before the call
computeAABB(prior, xf, childIndex) ==
  IF \/ _ASSERT /\ ~ (0 <= childIndex /\ childIndex < m_count)
     \/ getVertexThrows(childIndex) \/ getVertexThrows(childIndex + 1)
     \* Transform.mulVec2 reads v.x of undefined: a TypeError
     \/ getVertex(childIndex) = Undefined \/ getVertex(childIndex + 1) = Undefined
    THEN [threw |-> TRUE, aabb |-> prior]
  ELSE LET v1 == Transform_mulVec2(xf, getVertex(childIndex))
           v2 == Transform_mulVec2(xf, getVertex(childIndex + 1))
       IN  [threw |-> FALSE, aabb |-> AABB_combinePoints(v1, v2)]

\* chain.computeAABB(aabb, xf, childIndex)
ComputeAABB ==
  /\ status = "ok"
  /\ AfterUpdate
  /\ \E prior \in PriorBoxes, xf \in Transforms, childIndex \in ChildIndices :
       LET r == computeAABB(prior, xf, childIndex)
       IN  call' = [op |-> "computeAABB", childIndex |-> childIndex, xf |-> xf,
                    threw |-> r.threw, aabb |-> r.aabb]
  /\ UNCHANGED << _ASSERT, status, input, chainVars, resets, lastPrev, lastNext >>

\* chain.computeMass(massData, density): chains have zero mass
computeMass == [mass |-> 0, center |-> <<0, 0>>, I |-> 0]

ComputeMass ==
  /\ status = "ok"
  /\ AfterUpdate
  /\ call' = [op |-> "computeMass", threw |-> FALSE, massData |-> computeMass]
  /\ UNCHANGED << _ASSERT, status, input, chainVars, resets, lastPrev, lastNext >>

\* a[i] = v of a JavaScript array, for i at most the length of a
SetAt(a, i, v) == IF i + 1 \in DOMAIN a THEN [a EXCEPT ![i + 1] = v] ELSE Append(a, v)

\* what a reused DistanceProxy holds in m_buffer before the call: nothing,
\* or the ends of an earlier edge
PriorBuffers == { <<>>, << <<9, 9>>, <<8, 8>> >> }

\* the proxy that computeDistanceProxy(proxy, childIndex) leaves in proxy,
\* whose m_buffer held buffer before the call
computeDistanceProxy(buffer, childIndex) ==
  IF \/ _ASSERT /\ ~ (0 <= childIndex /\ childIndex < m_count)
     \/ getVertexThrows(childIndex) \/ getVertexThrows(childIndex + 1)
    THEN [threw |-> TRUE]
  ELSE LET m_buffer == SetAt(SetAt(buffer, 0, getVertex(childIndex)),
                             1, getVertex(childIndex + 1))
       IN  [threw |-> FALSE,
            m_buffer |-> m_buffer,
            m_vertices |-> m_buffer,
            m_count |-> 2,
            m_radius |-> m_radius]

\* chain.computeDistanceProxy(proxy, childIndex)
ComputeDistanceProxy ==
  /\ status = "ok"
  /\ AfterUpdate
  /\ \E buffer \in PriorBuffers, childIndex \in ChildIndices :
       LET proxy == computeDistanceProxy(buffer, childIndex)
       IN  call' = [op |-> "computeDistanceProxy", childIndex |-> childIndex,
                    threw |-> proxy.threw, proxy |-> proxy]
  /\ UNCHANGED << _ASSERT, status, input, chainVars, resets, lastPrev, lastNext >>

\* chain._reset(): rebuild the chain from its own vertex array
_reset ==
  /\ status = "ok"
  /\ resets < MaxResets
  /\ LET r == IF m_isLoop THEN _createLoop(This, m_vertices)
                          ELSE _createChain(This, m_vertices)
     IN  /\ Store(r.this)
         /\ call' = [op |-> "_reset", threw |-> r.threw]
  /\ resets' = resets + 1
  /\ UNCHANGED << _ASSERT, status, input, m_type, m_radius, m_isLoop,
                  lastPrev, lastNext >>

Next ==
  \/ Constructor
  \/ setPrevVertex
  \/ setNextVertex
  \/ GetChildEdge
  \/ TestPoint
  \/ ComputeAABB
  \/ ComputeMass
  \/ ComputeDistanceProxy
  \/ _reset

Spec == Init /\ [][Next]_vars

(* ------------------------------- claims -------------------------------- *)

\* chain vertex i, counted from 0
Vertex(i) == At(m_vertices, i)

\* C1: for every child index i below getChildCount(), getChildEdge(edge, i)
\* leaves an edge of type "edge" with the chain's radius whose vertex1 and
\* vertex2 are chain vertices i and i+1; vertex0 is chain vertex i-1 with
\* hasVertex0 true when i > 0, else the chain's prevVertex with
\* hasVertex0 = hasPrevVertex; vertex3 is chain vertex i+2 with hasVertex3
\* true when i < m_count-2, else the chain's nextVertex with
\* hasVertex3 = hasNextVertex.
C1_ChildEdge ==
  (call.op = "getChildEdge" /\ call.childIndex < getChildCount) =>
    LET i == call.childIndex
        e == call.edge
    IN  /\ ~ call.threw
        /\ e.m_type = "edge"
        /\ e.m_radius = m_radius
        /\ e.m_vertex1 = Vertex(i) /\ e.m_vertex1 # Undefined
        /\ e.m_vertex2 = Vertex(i + 1) /\ e.m_vertex2 # Undefined
        /\ (i > 0) =>
             e.m_vertex0 = Vertex(i - 1) /\ e.m_hasVertex0 = TRUE
        /\ ~ (i > 0) =>
             e.m_vertex0 = m_prevVertex /\ e.m_hasVertex0 = m_hasPrevVertex
        /\ (i < m_count - 2) =>
             /\ e.m_vertex3 = Vertex(i + 2) /\ e.m_vertex3 # Undefined
             /\ e.m_hasVertex3 = TRUE
        /\ ~ (i < m_count - 2) =>
             e.m_vertex3 = m_nextVertex /\ e.m_hasVertex3 = m_hasNextVertex

\* an interior child (both neighbours are chain vertices) was fetched
C1_Witness ==
  /\ call.op = "getChildEdge" /\ ~ call.threw
  /\ call.childIndex > 0 /\ call.childIndex < m_count - 2

\* C2: a chain constructed as a loop from n >= 3 vertices stores n+1
\* vertices, the last equal to the first input vertex; getChildCount() is n;
\* child i runs from input vertex i to input vertex i+1, the last child back
\* to input vertex 0; every child edge has both ghost vertices; the first
\* child's vertex0 is input vertex n-1 and the last child's vertex3 is input
\* vertex 1 (as the constructor leaves them: until setPrevVertex, resp.
\* setNextVertex, is called).
C2_LoopCloses ==
  (status = "ok" /\ m_isLoop /\ Len(input) >= 3 /\ resets = 0) =>
    LET n == Len(input)
    IN  /\ Len(m_vertices) = n + 1
        /\ m_count = n + 1
        /\ \A k \in 0 .. n - 1 : Vertex(k) = At(input, k)
        /\ Vertex(n) = At(input, 0)
        /\ getChildCount = n
        /\ \A i \in 0 .. getChildCount - 1 :
             /\ ~ getChildEdge(i).threw
             /\ getChildEdge(i).m_vertex1 = At(input, i)
             /\ getChildEdge(i).m_vertex2 = At(input, (i + 1) % n)
             /\ getChildEdge(i).m_hasVertex0
             /\ getChildEdge(i).m_hasVertex3
        /\ lastPrev = Null => getChildEdge(0).m_vertex0 = At(input, n - 1)
        /\ lastNext = Null => getChildEdge(n - 1).m_vertex3 = At(input, 1)

\* the closing child of a loop built with assertions on was fetched
C2_Witness ==
  /\ status = "ok" /\ m_isLoop /\ Len(input) >= 3 /\ resets = 0 /\ _ASSERT
  /\ lastPrev = Null /\ lastNext = Null
  /\ call.op = "getChildEdge" /\ ~ call.threw
  /\ call.childIndex = getChildCount - 1

\* C3: a chain constructed as an open chain from n >= 2 vertices has n-1
\* children; the first child has hasVertex0 false and the last child has
\* hasVertex3 false until setPrevVertex, resp. setNextVertex, is called, and
\* from then on the first child's vertex0 is the latest p set, with
\* hasVertex0 true, and the last child's vertex3 the latest q set, with
\* hasVertex3 true; the stored vertices, the child count and the ghost
\* vertices of the interior children stay as constructed.
C3_OpenChainEnds ==
  (status = "ok" /\ ~ m_isLoop /\ Len(input) >= 2 /\ resets = 0) =>
    LET n == Len(input)
        first == getChildEdge(0)
        last == getChildEdge(n - 2)
    IN  /\ getChildCount = n - 1
        /\ m_count = n
        /\ m_vertices = input
        /\ ~ first.threw /\ ~ last.threw
        /\ IF lastPrev = Null
             THEN first.m_hasVertex0 = FALSE
             ELSE first.m_hasVertex0 = TRUE /\ first.m_vertex0 = lastPrev
        /\ IF lastNext = Null
             THEN last.m_hasVertex3 = FALSE
             ELSE last.m_hasVertex3 = TRUE /\ last.m_vertex3 = lastNext
        /\ \A i \in 1 .. n - 2 :
             /\ getChildEdge(i).m_hasVertex0 = TRUE
             /\ getChildEdge(i).m_vertex0 = At(input, i - 1)
        /\ \A i \in 0 .. n - 3 :
             /\ getChildEdge(i).m_hasVertex3 = TRUE
             /\ getChildEdge(i).m_vertex3 = At(input, i + 2)

\* both ends of an open chain of two segments were connected, and the
\* first child fetched
C3_Witness ==
  /\ status = "ok" /\ ~ m_isLoop /\ Len(input) >= 3 /\ resets = 0
  /\ lastPrev \in GhostPoints /\ lastNext \in GhostPoints /\ lastPrev # lastNext
  /\ call.op = "getChildEdge" /\ ~ call.threw /\ call.childIndex = 0

\* C4: for every child index i below getChildCount(),
\* computeDistanceProxy(proxy, i) leaves a proxy of count 2 whose vertices
\* are chain vertex i and chain vertex i+1 in this order, the vertex1 and
\* vertex2 of getChildEdge(edge, i), and whose radius is the chain's; the
\* call does not modify the chain.
C4_DistanceProxy ==
  [][(call'.op = "computeDistanceProxy" /\ call'.childIndex < getChildCount) =>
       LET i == call'.childIndex
           proxy == call'.proxy
       IN  /\ UNCHANGED chainVars
           /\ ~ call'.threw
           /\ proxy.m_count = 2
           /\ Len(proxy.m_vertices) >= 2
           /\ SubSeq(proxy.m_vertices, 1, proxy.m_count) = << Vertex(i), Vertex(i + 1) >>
           /\ Vertex(i) # Undefined /\ Vertex(i + 1) # Undefined
           /\ At(proxy.m_vertices, 0) = getChildEdge(i).m_vertex1
           /\ At(proxy.m_vertices, 1) = getChildEdge(i).m_vertex2
           /\ proxy.m_radius = m_radius]_vars

\* the proxy of the closing child of a loop was computed
C4_Witness ==
  /\ call.op = "computeDistanceProxy" /\ ~ call.threw
  /\ m_isLoop /\ m_count >= 4 /\ call.childIndex = getChildCount - 1

\* C5 (as claimed): testPoint(xf, p) returns false for every chain, every
\* transform and every point.
C5_TestPointAlwaysFalse ==
  call.op = "testPoint" => call.result = FALSE

\* child segment i is no longer than linearSlop
NearZero(i) ==
  ~ (Vec2_distanceSquared(Vertex(i), Vertex(i + 1)) > linearSlopSquared)

\* C6 (as claimed): with ASSERT on, no chain comes out of the constructor
\* with a child segment of squared length <= linearSlopSquared, the closing
\* segment of a loop included; with ASSERT off the constructor never throws.
C6_NearZeroSegmentsAsserted ==
  /\ (_ASSERT /\ status = "ok" /\ resets = 0) =>
       \A i \in 0 .. getChildCount - 1 : ~ NearZero(i)
  /\ ~ _ASSERT => status # "threw"

Le(a, b) == a[1] <= b[1] /\ a[2] <= b[2]

\* C7: for every child index i below getChildCount(),
\* computeAABB(aabb, xf, i) leaves a box with min <= max componentwise that
\* contains xf applied to chain vertex i and to chain vertex i+1 and is the
\* componentwise min and max of these two points, whatever aabb held before.
C7_ChildAABB ==
  (call.op = "computeAABB" /\ call.childIndex < getChildCount) =>
    LET i == call.childIndex
        a == Transform_mulVec2(call.xf, Vertex(i))
        b == Transform_mulVec2(call.xf, Vertex(i + 1))
        lo == call.aabb.lowerBound
        hi == call.aabb.upperBound
    IN  /\ ~ call.threw
        /\ Le(lo, hi)
        /\ Le(lo, a) /\ Le(a, hi)
        /\ Le(lo, b) /\ Le(b, hi)
        /\ \A k \in 1 .. 2 : lo[k] \in { a[k], b[k] } /\ hi[k] \in { a[k], b[k] }

\* a box was computed under a turning transform for a child whose first
\* endpoint lands above the second in x and below it in y
C7_Witness ==
  /\ call.op = "computeAABB" /\ ~ call.threw
  /\ call.childIndex < getChildCount
  /\ call.xf.s # 0
  /\ LET a == Transform_mulVec2(call.xf, Vertex(call.childIndex))
         b == Transform_mulVec2(call.xf, Vertex(call.childIndex + 1))
     IN  a[1] > b[1] /\ a[2] < b[2]


====
